---- MODULE Spec2Model ----
(***************************************************************************)
(* Camera controls of thatopen-enhanced-camera-controls.                   *)
(*                                                                         *)
(*   SpecOrbit      createMouseOrbitControl / setOrbitPoint                *)
(*                  (src/mouseOrbitControl.ts)                             *)
(*   SpecWheel      the three definitions of createSmoothWheelControl:     *)
(*                    "momentum"   src/unnamed/part_003                    *)
(*                    "instant"    src/smoothWheelControl.ts, lines 1-132  *)
(*                    "throttled"  src/smoothWheelControl.ts, lines 134-312*)
(*   SpecMomentum, SpecInstant, SpecThrottled                              *)
(*                  one of these definitions at a time                     *)
(*                                                                         *)
(* Reals are fixed point: factors, modifiers and the base step in          *)
(* thousandths, camera coordinates and steps in millionths, time in ms.    *)
(* The clock is kept as differences: a timer holds the time left until it  *)
(* is due, and `now - lastRaycastTime`, `now - lastWheelTime` are ages     *)
(* that saturate just above the delay they are compared with.  A timer     *)
(* fires when it is due and an animation frame one clock step after its    *)
(* request; handlers at the same instant run in any order.                 *)
(*                                                                         *)
(* Handlers run to completion on the UI thread: one action is one handler  *)
(* invocation, one timer callback, or the continuation of one resolved     *)
(* castRay() promise.  Promises resolve in any order.                      *)
(***************************************************************************)
EXTENDS Integers, Sequences, FiniteSets, TLC

VARIABLES
    state,          \* mouseOrbitControl.ts: the controller's `state` object
    orbitPoint,     \* the camera rig's orbit point (set by setOrbitPoint)
    pending,        \* castRay() promises in flight, with their continuations
    gesture,        \* history: number of primary-button presses so far
    resultGen,      \* history: the press whose query produced state.raycastResult
    commitGen,      \* history: the press whose query produced the last mouse-path commit
    moveCommits,    \* history: setOrbitPoint calls of mouseMoveHandler since the last press
    farMove,        \* history: a pointer-move beyond the threshold was seen since the last press
    ownFailed,      \* history: the query of the last press settled without a point
    lastStep,       \* history: the handler that ran last, with its inputs
    variant,        \* which createSmoothWheelControl was constructed
    cfg,            \* its merged configuration `cfg`
    timers,         \* the browser's table of armed setTimeout timers
    frames,         \* the browser's requested animation frames
    camera,         \* the rig's position and target, per axis
    wheelTimeoutId,     \* all variants
    raycastTimeoutId,   \* throttled
    sinceRaycast,       \* throttled: now - lastRaycastTime
    cachedSpeedFactor,  \* throttled
    isMoving,           \* throttled
    _dir,               \* instant, throttled: the shared vector _dir
    sinceWheel,         \* momentum: now - lastWheelTime
    wheelVelocity,      \* momentum
    targetStep,         \* momentum
    animationFrameId,   \* momentum
    lastMouse,          \* momentum: lastMouseX, lastMouseY (as the ray they select)
    DOLLY_STEP_REF,     \* the exported cell { value }
    disposed,       \* history: cleanup() has been called
    wheelCount,     \* history: wheel events so far
    sinceHandled,   \* history: time since the last wheel event that passed the early return
    refreshSinceWheel, \* history: refresh invocations since that event
    inputAfterCleanup, \* history: a wheel event arrived after the last cleanup()
    sinceStarted    \* history, throttled: time since performRaycast() was last called

orbitVars == <<state, gesture, resultGen, commitGen, moveCommits, farMove,
               ownFailed>>

fixedVars == <<variant, cfg, DOLLY_STEP_REF>>

throttledVars == <<raycastTimeoutId, sinceRaycast, cachedSpeedFactor, isMoving>>

momentumVars == <<sinceWheel, wheelVelocity, targetStep, animationFrameId,
                  lastMouse, frames>>

historyVars == <<disposed, wheelCount, sinceHandled, refreshSinceWheel,
                 inputAfterCleanup, sinceStarted>>

wheelVars == <<fixedVars, timers, camera, wheelTimeoutId, _dir, throttledVars,
               momentumVars, historyVars>>

vars == <<orbitVars, wheelVars, orbitPoint, pending, lastStep>>

(***************************************************************************)
(* Bounds of the model                                                     *)
(***************************************************************************)
MaxGestures == 2
MaxInFlight == 2
\* wheel events per behaviour
MaxWheel == 2

\* accumulated velocities range up to MaxVelocity * 10
MaxVelocity == 120

\* intersection distances range up to MaxDistance * 0.5
MaxDistance == 110

\* scene diagonals range up to MaxDiagonal * 5
MaxDiagonal == 40

\* the most the clock advances in one step, ms
TickMs == 50

(***************************************************************************)
(* Values                                                                  *)
(***************************************************************************)
\* JavaScript null / undefined
NULL == [null |-> TRUE]

\* 3D points a ray cast can return
Points == { [x |-> 1, y |-> 2, z |-> 3], [x |-> 4, y |-> 5, z |-> 6] }

\* outcomes of a ray cast: a hit with its point, no hit, or a thrown error
Outcomes ==
    { [kind |-> "hit", point |-> p] : p \in Points }
        \cup { [kind |-> "miss", point |-> NULL],
               [kind |-> "error", point |-> NULL] }

\* what raycaster.intersectObjects(children, true) gives: the intersections it
\* found, sorted by distance with the nearest first, or a thrown error
SceneOutcomes ==
    { [kind |-> "found", intersections |-> l] :
        l \in {<<>>} \cup { <<p>> : p \in Points }
                     \cup { <<pq[1], pq[2]>> :
                              pq \in {x \in Points \X Points : x[1] # x[2]} } }
        \cup { [kind |-> "error", intersections |-> <<>>] }

\* screen positions of pointer events (clientX, clientY)
Positions ==
    { [x |-> 100, y |-> 100], [x |-> 105, y |-> 100],
      [x |-> 100, y |-> 112], [x |-> 106, y |-> 108] }

\* MouseEvent.button of a press: 0 primary, 1 auxiliary, 2 secondary
Buttons == {0, 1, 2}

\* MouseEvent.buttons of a move: bit mask, 1 primary, 2 secondary
ButtonMasks == {0, 1, 2, 3}

\* TouchEvent.touches.length
TouchCounts == {0, 1, 2}

(***************************************************************************)
(* mouseOrbitControl.ts                                                    *)
(***************************************************************************)
DRAG_DISTANCE_THRESHOLD == 10

\* Math.pow(dx, 2) + Math.pow(dy, 2), the radicand of the drag distance
DistanceSquared(p, q) == (p.x - q.x) * (p.x - q.x) + (p.y - q.y) * (p.y - q.y)

\* Math.sqrt(...) > DRAG_DISTANCE_THRESHOLD.  On integer pixel coordinates
\* sqrt(n) > t iff n > t * t (sqrt is monotone and exact on squares).
BeyondThresholdOrEqual(p, q) ==
    DistanceSquared(p, q) >= DRAG_DISTANCE_THRESHOLD * DRAG_DISTANCE_THRESHOLD

BeyondThreshold(p, q) ==
    DistanceSquared(p, q) > DRAG_DISTANCE_THRESHOLD * DRAG_DISTANCE_THRESHOLD

\* history only: the move stays within the click radius of the press position
WithinClick(p, q) ==
    DistanceSquared(p, q) <= DRAG_DISTANCE_THRESHOLD * DRAG_DISTANCE_THRESHOLD

\* `e.buttons !== 1 || state.hasSetOrbitPoint` is the early return of
\* mouseMoveHandler; this is its negation
MoveArmedIgnoringFlag(buttons) == buttons = 1

MoveArmed(buttons) == buttons = 1 /\ ~state.hasSetOrbitPoint

\* the coordinates handed to controls.setOrbitPoint(point.x, point.y, point.z)
OrbitArgsSwapped(point) == [x |-> point.z, y |-> point.y, z |-> point.x]

OrbitArgs(point) == [x |-> point.x, y |-> point.y, z |-> point.z]

\* no wheel controller constructed
WheelAbsent ==
    /\ variant = "none"
    /\ cfg = NULL
    /\ timers = {}
    /\ frames = {}
    /\ camera = NULL
    /\ wheelTimeoutId = NULL
    /\ raycastTimeoutId = NULL
    /\ sinceRaycast = 0
    /\ cachedSpeedFactor = 0
    /\ isMoving = FALSE
    /\ _dir = NULL
    /\ sinceWheel = 0
    /\ wheelVelocity = 0
    /\ targetStep = 0
    /\ animationFrameId = NULL
    /\ lastMouse = NULL
    /\ DOLLY_STEP_REF = NULL
    /\ disposed = FALSE
    /\ wheelCount = 0
    /\ sinceHandled = 0
    /\ refreshSinceWheel = 0
    /\ inputAfterCleanup = FALSE
    /\ sinceStarted = 0

InitOrbit ==
    /\ WheelAbsent
    /\ state = [mouseDownPos |-> [x |-> 0, y |-> 0],
                hasSetOrbitPoint |-> FALSE,
                raycastResult |-> NULL]
    /\ orbitPoint = NULL
    /\ pending = <<>>
    /\ gesture = 0
    /\ resultGen = 0
    /\ commitGen = 0
    /\ moveCommits = 0
    /\ farMove = FALSE
    /\ ownFailed = FALSE
    /\ lastStep = [op |-> "init"]

\* `state.mouseDownPos = { x: e.clientX, y: e.clientY }`,
\* `state.hasSetOrbitPoint = false`, `state.raycastResult = null`
PressResetKeepingFlag(pos) ==
    [state EXCEPT !.mouseDownPos = pos, !.raycastResult = NULL]

PressReset(pos) ==
    [mouseDownPos |-> pos, hasSetOrbitPoint |-> FALSE, raycastResult |-> NULL]

\* mouseDownHandler up to its `await caster.castRay()`
MouseDown(button, pos) ==
    /\ UNCHANGED wheelVars
    /\ lastStep' = IF button = 0
                   THEN [op |-> "down", button |-> button, pos |-> pos]
                   ELSE [op |-> "down", button |-> button]
    /\ IF button # 0
       THEN UNCHANGED <<state, orbitPoint, pending, gesture, resultGen,
                        commitGen, moveCommits, farMove, ownFailed>>
       ELSE /\ gesture < MaxGestures
            /\ Len(pending) < MaxInFlight
            /\ state' = PressReset(pos)
            /\ pending' = Append(pending, [gen |-> gesture + 1])
            /\ gesture' = gesture + 1
            /\ moveCommits' = 0
            /\ farMove' = FALSE
            /\ ownFailed' = FALSE
            /\ UNCHANGED <<orbitPoint, resultGen, commitGen>>

\* the rest of mouseDownHandler, run when the i-th promise in flight settles
MouseDownResume(i, outcome) ==
    /\ i \in 1..Len(pending)
    /\ pending' = SubSeq(pending, 1, i - 1) \o SubSeq(pending, i + 1, Len(pending))
    /\ UNCHANGED wheelVars
    /\ lastStep' = [op |-> "resume", hit |-> (outcome.kind = "hit")]
    /\ IF outcome.kind = "hit"
       THEN /\ state' = [state EXCEPT !.raycastResult = outcome.point]
            /\ resultGen' = pending[i].gen
       ELSE UNCHANGED <<state, resultGen>>
    /\ ownFailed' = (ownFailed \/ (pending[i].gen = gesture /\ outcome.kind # "hit"))
    /\ UNCHANGED <<orbitPoint, gesture, commitGen, moveCommits, farMove>>

\* mouseMoveHandler; cc is whether world.camera.controls is defined
MouseMove(buttons, pos, cc) ==
    /\ UNCHANGED wheelVars
    /\ lastStep' = [op |-> "move", buttons |-> buttons, pos |-> pos, cc |-> cc,
                     prev |-> commitGen]
    /\ farMove' = (farMove \/ ~WithinClick(pos, state.mouseDownPos))
    /\ IF /\ MoveArmed(buttons)
          /\ BeyondThreshold(pos, state.mouseDownPos)
          /\ state.raycastResult # NULL
       THEN /\ state' = [state EXCEPT !.hasSetOrbitPoint = TRUE]
            /\ IF cc
               THEN /\ orbitPoint' = OrbitArgs(state.raycastResult)
                    /\ moveCommits' = moveCommits + 1
                    /\ commitGen' = resultGen
               ELSE UNCHANGED <<orbitPoint, moveCommits, commitGen>>
       ELSE UNCHANGED <<state, orbitPoint, moveCommits, commitGen>>
    /\ UNCHANGED <<pending, gesture, resultGen, ownFailed>>

\* `if (intersections.length) { const point = intersections[0].point`
FarthestHit(outcome) ==
    IF Len(outcome.intersections) > 0
    THEN [kind |-> "hit", point |-> outcome.intersections[Len(outcome.intersections)]]
    ELSE [kind |-> "miss", point |-> NULL]

NearestHit(outcome) ==
    IF Len(outcome.intersections) > 0
    THEN [kind |-> "hit", point |-> outcome.intersections[1]]
    ELSE [kind |-> "miss", point |-> NULL]

\* touchStartHandler; container is whether containerRef.current is set,
\* outcome is what raycaster.intersectObjects finds
TouchStart(touches, container, outcome, cc) ==
    /\ UNCHANGED wheelVars
    /\ lastStep' = [op |-> "touch",
                    ready |-> (touches = 1 /\ container /\ cc),
                    hit |-> (NearestHit(outcome).kind = "hit"),
                    intersections |-> outcome.intersections]
    /\ IF touches = 1 /\ container /\ NearestHit(outcome).kind = "hit" /\ cc
       THEN orbitPoint' = OrbitArgs(NearestHit(outcome).point)
       ELSE UNCHANGED orbitPoint
    /\ UNCHANGED <<state, pending, gesture, resultGen, commitGen, moveCommits, farMove,
                   ownFailed>>

\* setOrbitPoint, had it marked the gesture's pivot as set
SetOrbitPointConsuming(container, outcome, cc) ==
    /\ UNCHANGED wheelVars
    /\ lastStep' = [op |-> "setOrbitPoint",
                    ready |-> (container /\ cc),
                    hit |-> (NearestHit(outcome).kind = "hit"),
                    intersections |-> outcome.intersections]
    /\ IF container /\ NearestHit(outcome).kind = "hit" /\ cc
       THEN /\ orbitPoint' = OrbitArgs(NearestHit(outcome).point)
            /\ state' = [state EXCEPT !.hasSetOrbitPoint = TRUE]
       ELSE UNCHANGED <<orbitPoint, state>>
    /\ UNCHANGED <<pending, gesture, resultGen, commitGen, moveCommits, farMove,
                   ownFailed>>

\* the exported setOrbitPoint(world, containerRef, mouseX, mouseY); mouseX and
\* mouseY only select the ray, whose outcome is the parameter here
SetOrbitPoint(container, outcome, cc) ==
    /\ UNCHANGED wheelVars
    /\ lastStep' = [op |-> "setOrbitPoint",
                    ready |-> (container /\ cc),
                    hit |-> (NearestHit(outcome).kind = "hit"),
                    intersections |-> outcome.intersections]
    /\ IF container /\ NearestHit(outcome).kind = "hit" /\ cc
       THEN orbitPoint' = OrbitArgs(NearestHit(outcome).point)
       ELSE UNCHANGED orbitPoint
    /\ UNCHANGED <<state, pending, gesture, resultGen, commitGen, moveCommits, farMove,
                   ownFailed>>

NextOrbit ==
    \/ \E b \in Buttons, p \in Positions : MouseDown(b, p)
    \/ \E i \in 1..MaxInFlight, o \in Outcomes : MouseDownResume(i, o)
    \/ \E m \in ButtonMasks, p \in Positions, cc \in BOOLEAN : MouseMove(m, p, cc)
    \/ \E n \in TouchCounts, c \in BOOLEAN, o \in SceneOutcomes, cc \in BOOLEAN :
           TouchStart(n, c, o, cc)
    \/ \E c \in BOOLEAN, o \in SceneOutcomes, cc \in BOOLEAN : SetOrbitPoint(c, o, cc)

SpecOrbit == InitOrbit /\ [][NextOrbit]_vars

(***************************************************************************)
(* createSmoothWheelControl: values                                        *)
(***************************************************************************)

\* ray directions a cursor position selects: the unit vector of axis 1 or 2
Rays == {1, 2}

\* wheel events: deltaY, shiftKey, altKey || ctrlKey || metaKey, and the ray
\* through (clientX, clientY)
WheelEvents ==
    { [deltaY |-> -100, shiftKey |-> FALSE, modKey |-> FALSE, ray |-> 1],
      [deltaY |-> 100,  shiftKey |-> TRUE,  modKey |-> FALSE, ray |-> 2] }

\* outcomes of castRay() for the wheel controller: a hit with its point and
\* its distance (in thousandths: 1.0 is nearer than proximitySlowDistance),
\* no hit, a thrown error
WheelOutcomes ==
    { [kind |-> "hit", point |-> [x |-> 1, y |-> 2, z |-> 3], distance |-> 1000],
      [kind |-> "miss"],
      [kind |-> "error"] }

\* defaultConfig of each definition, reals in thousandths, delays in ms
MomentumDefaults ==
    [velocityDecay |-> 900, velocityTimeout |-> 150, velocityDivisor |-> 200,
     maxVelocityMultiplier |-> 5000, smoothing |-> 150, stepAccumulation |-> 300,
     shiftBoost |-> 3000, fineModifier |-> 100, fragmentUpdateDelay |-> 300]

InstantDefaults ==
    [shiftBoost |-> 3000, fineModifier |-> 100, fragmentUpdateDelay |-> 300,
     proximitySlowdown |-> TRUE, proximitySlowDistance |-> 2000,
     proximityNormalDistance |-> 10000, proximityFastDistance |-> 50000,
     proximityMinSpeed |-> 100, proximityMaxSpeed |-> 5000]

ThrottledDefaults ==
    [shiftBoost |-> 3000, fineModifier |-> 100, fragmentUpdateDelay |-> 300,
     proximitySlowdown |-> TRUE, proximitySlowDistance |-> 2000,
     proximityNormalDistance |-> 8000, proximityFastDistance |-> 50000,
     proximityMinSpeed |-> 200, proximityMaxSpeed |-> 10000]

\* cfg = { ...defaultConfig, ...config }: the defaults, or the defaults with
\* proximitySlowdown overridden to false
Configs(v) ==
    CASE v = "momentum" -> { MomentumDefaults }
      [] v = "instant" ->
            { InstantDefaults, [InstantDefaults EXCEPT !.proximitySlowdown = FALSE] }
      [] v = "throttled" ->
            { ThrottledDefaults, [ThrottledDefaults EXCEPT !.proximitySlowdown = FALSE] }

\* DOLLY_STEP_REF = { value: 0.2 } (momentum), { value: 0.5 } (instant, throttled)
InitialDollyStep(v) == IF v = "momentum" THEN [value |-> 200] ELSE [value |-> 500]

RAYCAST_THROTTLE == 100

\* the delay of the final ray cast after the refresh timer
FinalRaycastDelay == 50

\* Math.abs(targetStep) < 0.001, in millionths
AnimateEpsilon == 1000

(***************************************************************************)
(* Arithmetic                                                              *)
(***************************************************************************)
Abs(n) == IF n < 0 THEN -n ELSE n

MinOf(S) == CHOOSE m \in S : \A n \in S : m <= n

\* a * b for b in thousandths, rounded toward zero; the thousands of a and
\* the rest are multiplied apart, which keeps the products within 32 bits
Mul(a, b) ==
    LET x == Abs(a)
        y == Abs(b)
        magnitude == (x \div 1000) * y + ((x % 1000) * y) \div 1000
    IN  IF (a < 0) = (b < 0) THEN magnitude ELSE -magnitude

\* THREE.MathUtils.lerp(x, y, t) with t = num / den
Lerp(x, y, num, den) == x + ((y - x) * num) \div den

\* the piecewise-linear proximity speed factor of a hit at distance d
ProximityFactorFarUnboosted(d) ==
    IF d < cfg.proximitySlowDistance
    THEN Lerp(cfg.proximityMinSpeed, 1000, d, cfg.proximitySlowDistance)
    ELSE IF d < cfg.proximityNormalDistance
    THEN 1000
    ELSE IF d < cfg.proximityFastDistance
    THEN Lerp(1000, cfg.proximityMaxSpeed, d - cfg.proximityNormalDistance,
              cfg.proximityFastDistance - cfg.proximityNormalDistance)
    ELSE 1000

ProximityFactor(d) ==
    IF d < cfg.proximitySlowDistance
    THEN Lerp(cfg.proximityMinSpeed, 1000, d, cfg.proximitySlowDistance)
    ELSE IF d < cfg.proximityNormalDistance
    THEN 1000
    ELSE IF d < cfg.proximityFastDistance
    THEN Lerp(1000, cfg.proximityMaxSpeed, d - cfg.proximityNormalDistance,
              cfg.proximityFastDistance - cfg.proximityNormalDistance)
    ELSE cfg.proximityMaxSpeed

\* step = sign * base * boost * fine * factor, in millionths
StepModifiersExclusive(e, factor) ==
    LET base == DOLLY_STEP_REF.value
        boost == IF e.shiftKey THEN cfg.shiftBoost ELSE 1000
        fine == IF e.modKey /\ ~e.shiftKey THEN cfg.fineModifier ELSE 1000
        sign == IF e.deltaY < 0 THEN 1 ELSE -1
    IN  sign * Mul(Mul(base, boost), fine) * factor

StepBySignum(e, factor) ==
    LET base == DOLLY_STEP_REF.value
        boost == IF e.shiftKey THEN cfg.shiftBoost ELSE 1000
        fine == IF e.modKey THEN cfg.fineModifier ELSE 1000
        sign == IF e.deltaY < 0 THEN 1 ELSE IF e.deltaY > 0 THEN -1 ELSE 0
    IN  sign * Mul(Mul(base, boost), fine) * factor

Step(e, factor) ==
    LET base == DOLLY_STEP_REF.value
        boost == IF e.shiftKey THEN cfg.shiftBoost ELSE 1000
        fine == IF e.modKey THEN cfg.fineModifier ELSE 1000
        sign == IF e.deltaY < 0 THEN 1 ELSE -1
    IN  sign * Mul(Mul(base, boost), fine) * factor

\* _pos.addScaledVector(_dir, step); _tgt.addScaledVector(_dir, step);
\* cc.setLookAt(_pos, _tgt)
MoveAlongKeepingTarget(cam, ray, step) ==
    [pos |-> [cam.pos EXCEPT ![ray] = @ + step],
     tgt |-> cam.tgt]

MoveAlong(cam, ray, step) ==
    [pos |-> [cam.pos EXCEPT ![ray] = @ + step],
     tgt |-> [cam.tgt EXCEPT ![ray] = @ + step]]

(***************************************************************************)
(* Timers and animation frames of the browser                              *)
(***************************************************************************)
\* ids of timers that are armed or that a variable still refers to
UsedTimerIds ==
    {t.id : t \in timers} \cup {h.id : h \in {wheelTimeoutId, raycastTimeoutId} \ {NULL}}

\* the id window.setTimeout returns: one not in use
FreshTimerId == CHOOSE n \in 1..(Cardinality(UsedTimerIds) + 1) : n \notin UsedTimerIds

UsedFrameIds == {f.id : f \in frames} \cup {h.id : h \in {animationFrameId} \ {NULL}}

\* the id requestAnimationFrame returns: one not in use
FreshFrameId == CHOOSE n \in 1..(Cardinality(UsedFrameIds) + 1) : n \notin UsedFrameIds

\* clearTimeout(h), guarded by `h !== null`
ClearTimeout(tab, h) == IF h = NULL THEN tab ELSE {t \in tab : t.id # h.id}

\* cancelAnimationFrame(h), guarded by `h !== null`
CancelFrame(fs, h) == IF h = NULL THEN fs ELSE {f \in fs : f.id # h.id}

\* the timers and the animation frames that are due
Due == {t \in timers : t.left = 0}

DueFrames == {f \in frames : f.left = 0}

\* the time from requestAnimationFrame to its callback
FrameInterval == TickMs

\* an age after d more ms, saturating at cap
Aged(age, d, cap) == MinOf({age + d, cap})

\* `now - lastRaycastTime` is compared with RAYCAST_THROTTLE
RaycastAgeCap == RAYCAST_THROTTLE + TickMs

\* `now - lastWheelTime` is compared with cfg.velocityTimeout
WheelAgeCap == MomentumDefaults.velocityTimeout + TickMs

\* the time since the last handled event is compared with fragmentUpdateDelay
HandledAgeCap == MomentumDefaults.fragmentUpdateDelay + 2 * TickMs

\* `if (wheelTimeoutId !== null) clearTimeout(wheelTimeoutId)` followed by
\* `wheelTimeoutId = window.setTimeout(..., cfg.fragmentUpdateDelay)`
RefreshRearmedKeepingOld(tab) ==
    tab \cup {[id |-> FreshTimerId, kind |-> "refresh",
               left |-> cfg.fragmentUpdateDelay]}

RefreshRearmed(tab) ==
    ClearTimeout(tab, wheelTimeoutId)
        \cup {[id |-> FreshTimerId, kind |-> "refresh",
                left |-> cfg.fragmentUpdateDelay]}

(***************************************************************************)
(* Construction                                                            *)
(***************************************************************************)
\* the closure variables of a wheel controller just created
InitWheelState ==
    /\ DOLLY_STEP_REF = InitialDollyStep(variant)
    /\ timers = {}
    /\ frames = {}
    /\ camera = [pos |-> [r \in Rays |-> 0], tgt |-> [r \in Rays |-> IF r = 1 THEN 1000000 ELSE 0]]
    /\ wheelTimeoutId = NULL
    /\ raycastTimeoutId = NULL
    /\ sinceRaycast = 0
    /\ cachedSpeedFactor = 1000
    /\ isMoving = FALSE
    /\ _dir = 1
    /\ sinceWheel = WheelAgeCap
    /\ wheelVelocity = 0
    /\ targetStep = 0
    /\ animationFrameId = NULL
    /\ lastMouse = 1
    /\ disposed = FALSE
    /\ wheelCount = 0
    /\ sinceHandled = HandledAgeCap
    /\ refreshSinceWheel = 0
    /\ inputAfterCleanup = FALSE
    /\ sinceStarted = RAYCAST_THROTTLE
    /\ orbitPoint = NULL
    /\ pending = <<>>
    /\ lastStep = [op |-> "init"]
    /\ state = NULL
    /\ gesture = 0
    /\ resultGen = 0
    /\ commitGen = 0
    /\ moveCommits = 0
    /\ farMove = FALSE
    /\ ownFailed = FALSE

InitWheel ==
    /\ variant \in {"momentum", "instant", "throttled"}
    /\ cfg \in Configs(variant)
    /\ InitWheelState

\* the time that passes in one step: up to the next timer that is due
Elapse == MinOf({TickMs} \cup {t.left : t \in timers} \cup {f.left : f \in frames})

\* time passes
Tick ==
    /\ Due = {} /\ DueFrames = {}
    /\ timers' = {[t EXCEPT !.left = @ - Elapse] : t \in timers}
    /\ frames' = {[f EXCEPT !.left = @ - Elapse] : f \in frames}
    /\ sinceRaycast' = Aged(sinceRaycast, Elapse, RaycastAgeCap)
    /\ sinceStarted' = Aged(sinceStarted, Elapse, RAYCAST_THROTTLE)
    /\ sinceWheel' = Aged(sinceWheel, Elapse, WheelAgeCap)
    /\ sinceHandled' = Aged(sinceHandled, Elapse, HandledAgeCap)
    /\ lastStep' = [op |-> "tick"]
    /\ UNCHANGED <<orbitVars, orbitPoint, pending, fixedVars, camera,
                   wheelTimeoutId, _dir, raycastTimeoutId, cachedSpeedFactor, isMoving,
                   wheelVelocity, targetStep, animationFrameId, lastMouse,
                   disposed, wheelCount, refreshSinceWheel, inputAfterCleanup>>

\* the event object after a wheelHandler call: `e.preventDefault()` and
\* `e.stopPropagation()` are the first two statements, ahead of the early
\* return; passed says whether the call got past that return
EventAfterGuardFirst(passed) ==
    [defaultPrevented |-> passed, propagationStopped |-> passed]

EventAfter(passed) ==
    [defaultPrevented |-> TRUE, propagationStopped |-> TRUE]

\* a wheel event whose handler returns early: `if (!cc ...) return`
WheelIgnored ==
    /\ lastStep' = [op |-> "wheel", handled |-> FALSE, event |-> EventAfter(FALSE)]
    /\ wheelCount' = wheelCount + 1
    /\ inputAfterCleanup' = disposed
    /\ UNCHANGED sinceStarted
    /\ UNCHANGED <<orbitVars, orbitPoint, pending, fixedVars, timers, camera,
                   wheelTimeoutId, _dir, throttledVars, momentumVars, disposed,
                   sinceHandled, refreshSinceWheel>>

\* history of a wheel event that passed the early return
WheelHandled(e, el) ==
    /\ lastStep' = [op |-> "wheel", handled |-> TRUE, e |-> e, el |-> el,
                     event |-> EventAfter(TRUE)]
    /\ wheelCount' = wheelCount + 1
    /\ sinceHandled' = 0
    /\ refreshSinceWheel' = 0
    /\ inputAfterCleanup' = disposed
    /\ UNCHANGED disposed

(***************************************************************************)
(* "throttled": src/smoothWheelControl.ts, lines 134-312                   *)
(***************************************************************************)

\* `!isMoving && now - lastRaycastTime > RAYCAST_THROTTLE`
RaycastAllowed == ~isMoving /\ sinceRaycast > RAYCAST_THROTTLE

\* `result && 'point' in result && result.point && !isMoving`
OrbitUpdateAllowedWhileMoving(outcome) == outcome.kind = "hit"

OrbitUpdateAllowed(outcome) == outcome.kind = "hit" /\ ~isMoving

\* cachedSpeedFactor after performRaycast's castRay() settled with outcome
SpeedFactorAfter(outcome) ==
    IF outcome.kind = "error" THEN cfg.proximityMaxSpeed
    ELSE IF ~cfg.proximitySlowdown THEN cachedSpeedFactor
    ELSE IF outcome.kind = "hit" THEN ProximityFactor(outcome.distance)
    ELSE cfg.proximityMaxSpeed

\* wheelHandler
ThrottledWheel(e, cc, el) ==
    /\ variant = "throttled"
    /\ wheelCount < MaxWheel
    /\ IF ~cc \/ ~el
       THEN WheelIgnored
       ELSE /\ _dir' = e.ray
            /\ IF RaycastAllowed
               THEN /\ Len(pending) < MaxInFlight
                    /\ sinceRaycast' = 0
                    /\ sinceStarted' = 0
                    /\ pending' = Append(pending, [k |-> "performRaycast",
                                                   by |-> "wheelHandler"])
               ELSE UNCHANGED <<sinceRaycast, sinceStarted, pending>>
            /\ isMoving' = TRUE
            /\ camera' = MoveAlong(camera, e.ray, Step(e, cachedSpeedFactor))
            /\ timers' = RefreshRearmed(timers)
            /\ wheelTimeoutId' = [id |-> FreshTimerId]
            /\ WheelHandled(e, el)
            /\ UNCHANGED <<orbitVars, orbitPoint, fixedVars, raycastTimeoutId,
                           cachedSpeedFactor, momentumVars>>

\* `if (raycastTimeoutId !== null) clearTimeout(raycastTimeoutId)` followed by
\* `raycastTimeoutId = window.setTimeout(..., 50)`
FinalRaycastNeverArmed(tab) == ClearTimeout(tab, raycastTimeoutId)

FinalRaycastArmed(tab) ==
    ClearTimeout(tab, raycastTimeoutId)
        \cup {[id |-> FreshTimerId, kind |-> "finalRaycast",
                left |-> FinalRaycastDelay]}

\* the refresh timer's callback
ThrottledRefresh(t) ==
    /\ variant = "throttled"
    /\ t \in Due /\ t.kind = "refresh"
    /\ refreshSinceWheel' = refreshSinceWheel + 1
    /\ wheelTimeoutId' = NULL
    /\ isMoving' = FALSE
    /\ timers' = FinalRaycastArmed(timers \ {t})
    /\ raycastTimeoutId' = [id |-> FreshTimerId]
    /\ lastStep' = [op |-> "refresh"]
    /\ UNCHANGED <<orbitVars, orbitPoint, pending, fixedVars, camera, _dir,
                   sinceRaycast, cachedSpeedFactor, momentumVars, disposed,
                   wheelCount, sinceHandled, inputAfterCleanup, sinceStarted>>

\* the final-raycast timer's callback: performRaycast() up to its await
ThrottledFinalRaycast(t) ==
    /\ variant = "throttled"
    /\ t \in Due /\ t.kind = "finalRaycast"
    /\ Len(pending) < MaxInFlight
    /\ pending' = Append(pending, [k |-> "performRaycast", by |-> "timer"])
    /\ raycastTimeoutId' = NULL
    /\ timers' = timers \ {t}
    /\ sinceStarted' = 0
    /\ lastStep' = [op |-> "finalRaycast"]
    /\ UNCHANGED <<orbitVars, orbitPoint, fixedVars, camera, wheelTimeoutId, _dir,
                   sinceRaycast, cachedSpeedFactor, isMoving, momentumVars,
                   disposed, wheelCount, sinceHandled, refreshSinceWheel,
                   inputAfterCleanup>>

\* the rest of performRaycast, run when its castRay() promise settles
PerformRaycastResume(i, outcome, cc) ==
    /\ variant = "throttled"
    /\ i \in 1..Len(pending)
    /\ pending[i].k = "performRaycast"
    /\ pending' = SubSeq(pending, 1, i - 1) \o SubSeq(pending, i + 1, Len(pending))
    /\ orbitPoint' = IF OrbitUpdateAllowed(outcome) /\ cc
                     THEN OrbitArgs(outcome.point)
                     ELSE orbitPoint
    /\ cachedSpeedFactor' = SpeedFactorAfter(outcome)
    /\ lastStep' = [op |-> "raycastResume", outcome |-> outcome.kind, cc |-> cc,
                     by |-> pending[i].by]
    /\ UNCHANGED <<orbitVars, fixedVars, timers, camera, wheelTimeoutId, _dir,
                   raycastTimeoutId, sinceRaycast, isMoving, momentumVars,
                   historyVars>>

\* cleanup
ThrottledCleanup ==
    /\ variant = "throttled"
    /\ timers' = ClearTimeout(ClearTimeout(timers, wheelTimeoutId), raycastTimeoutId)
    /\ disposed' = TRUE
    /\ inputAfterCleanup' = FALSE
    /\ UNCHANGED sinceStarted
    /\ lastStep' = [op |-> "cleanup"]
    /\ UNCHANGED <<orbitVars, orbitPoint, pending, fixedVars, camera,
                   wheelTimeoutId, _dir, throttledVars, momentumVars, wheelCount,
                   sinceHandled, refreshSinceWheel>>

(***************************************************************************)
(* "instant": src/smoothWheelControl.ts, lines 1-132                       *)
(***************************************************************************)

\* speedFactor after the awaited castRay() settled with outcome
InstantSpeedFactor(outcome) ==
    IF outcome.kind = "hit" THEN ProximityFactor(outcome.distance) ELSE 1000

\* wheelHandler from `Calculate step size` to its end
InstantFinish(e, ray, factor) ==
    /\ camera' = MoveAlong(camera, ray, Step(e, factor))
    /\ timers' = RefreshRearmed(timers)
    /\ wheelTimeoutId' = [id |-> FreshTimerId]

\* wheelHandler up to `await caster.castRay()`, or to its end when
\* cfg.proximitySlowdown is false
InstantWheel(e, cc, el) ==
    /\ variant = "instant"
    /\ wheelCount < MaxWheel
    /\ IF ~cc \/ ~el
       THEN WheelIgnored
       ELSE /\ _dir' = e.ray
            /\ IF cfg.proximitySlowdown
               THEN /\ Len(pending) < MaxInFlight
                    /\ pending' = Append(pending, [k |-> "wheelHandler", e |-> e])
                    /\ UNCHANGED <<camera, timers, wheelTimeoutId>>
               ELSE /\ InstantFinish(e, e.ray, 1000)
                    /\ UNCHANGED pending
            /\ WheelHandled(e, el)
            /\ UNCHANGED <<orbitVars, orbitPoint, fixedVars, throttledVars,
                           momentumVars, sinceStarted>>

\* the rest of wheelHandler, run when its castRay() promise settles
InstantResume(i, outcome) ==
    /\ variant = "instant"
    /\ i \in 1..Len(pending)
    /\ pending[i].k = "wheelHandler"
    /\ pending' = SubSeq(pending, 1, i - 1) \o SubSeq(pending, i + 1, Len(pending))
    /\ InstantFinish(pending[i].e, _dir, InstantSpeedFactor(outcome))
    /\ lastStep' = [op |-> "wheelResume", outcome |-> outcome.kind,
                     e |-> pending[i].e, factor |-> InstantSpeedFactor(outcome)]
    /\ UNCHANGED <<orbitVars, orbitPoint, fixedVars, _dir, throttledVars,
                   momentumVars, historyVars>>

\* the refresh timer's callback, had it recalibrated the base step
PlainRefreshCalibrating(t) ==
    /\ variant \in {"instant", "momentum"}
    /\ t \in Due /\ t.kind = "refresh"
    /\ refreshSinceWheel' = refreshSinceWheel + 1
    /\ wheelTimeoutId' = NULL
    /\ timers' = timers \ {t}
    /\ lastStep' = [op |-> "refresh"]
    /\ DOLLY_STEP_REF' = [value |-> 500]
    /\ UNCHANGED <<orbitVars, orbitPoint, pending, variant, cfg, camera, _dir,
                   throttledVars, momentumVars, disposed, wheelCount, sinceHandled,
                   inputAfterCleanup, sinceStarted>>

\* the refresh timer's callback ("instant" and "momentum")
PlainRefresh(t) ==
    /\ variant \in {"instant", "momentum"}
    /\ t \in Due /\ t.kind = "refresh"
    /\ refreshSinceWheel' = refreshSinceWheel + 1
    /\ wheelTimeoutId' = NULL
    /\ timers' = timers \ {t}
    /\ lastStep' = [op |-> "refresh"]
    /\ UNCHANGED <<orbitVars, orbitPoint, pending, fixedVars, camera, _dir,
                   throttledVars, momentumVars, disposed, wheelCount, sinceHandled,
                   inputAfterCleanup, sinceStarted>>

\* cleanup
InstantCleanup ==
    /\ variant = "instant"
    /\ timers' = ClearTimeout(timers, wheelTimeoutId)
    /\ disposed' = TRUE
    /\ inputAfterCleanup' = FALSE
    /\ UNCHANGED sinceStarted
    /\ lastStep' = [op |-> "cleanup"]
    /\ UNCHANGED <<orbitVars, orbitPoint, pending, fixedVars, camera,
                   wheelTimeoutId, _dir, throttledVars, momentumVars, wheelCount,
                   sinceHandled, refreshSinceWheel>>

(***************************************************************************)
(* "momentum": src/unnamed/part_003                                        *)
(***************************************************************************)

\* wheelVelocity after the reset-or-decay and the accumulation of |deltaY|
VelocityAfterResetAtTimeout(e) ==
    (IF sinceWheel >= cfg.velocityTimeout
     THEN 0
     ELSE Mul(wheelVelocity, cfg.velocityDecay)) + Abs(e.deltaY) * 1000

VelocityAfter(e) ==
    (IF sinceWheel > cfg.velocityTimeout
     THEN 0
     ELSE Mul(wheelVelocity, cfg.velocityDecay)) + Abs(e.deltaY) * 1000

\* Math.min(1 + wheelVelocity / cfg.velocityDivisor, cfg.maxVelocityMultiplier)
VelocityMultiplierUnclamped(v) == 1000 + v \div cfg.velocityDivisor

VelocityMultiplier(v) ==
    MinOf({1000 + v \div cfg.velocityDivisor, cfg.maxVelocityMultiplier})

\* `targetStep = targetStep * cfg.stepAccumulation + step`
StepReplaced(ts, step) == step

StepAccumulated(ts, step) == Mul(ts, cfg.stepAccumulation) + step

\* wheelHandler, had it applied the step itself
MomentumWheelMovingCamera(e, cc, el) ==
    /\ variant = "momentum"
    /\ wheelCount < MaxWheel
    /\ IF ~cc
       THEN WheelIgnored
       ELSE /\ lastMouse' = e.ray
            /\ wheelVelocity' = VelocityAfter(e)
            /\ targetStep' = StepAccumulated(targetStep,
                                   Step(e, VelocityMultiplier(VelocityAfter(e))))
            /\ camera' = MoveAlong(camera, e.ray, Step(e, VelocityMultiplier(VelocityAfter(e))))
            /\ sinceWheel' = 0
            /\ IF animationFrameId = NULL
               THEN /\ frames' = frames \cup {[id |-> FreshFrameId, left |-> FrameInterval]}
                    /\ animationFrameId' = [id |-> FreshFrameId]
               ELSE UNCHANGED <<frames, animationFrameId>>
            /\ timers' = RefreshRearmed(timers)
            /\ wheelTimeoutId' = [id |-> FreshTimerId]
            /\ WheelHandled(e, el)
            /\ UNCHANGED <<orbitVars, orbitPoint, pending, fixedVars, _dir,
                           throttledVars, sinceStarted>>

\* wheelHandler
MomentumWheel(e, cc, el) ==
    /\ variant = "momentum"
    /\ wheelCount < MaxWheel
    /\ IF ~cc
       THEN WheelIgnored
       ELSE /\ lastMouse' = e.ray
            /\ wheelVelocity' = VelocityAfter(e)
            /\ targetStep' = StepAccumulated(targetStep,
                                   Step(e, VelocityMultiplier(VelocityAfter(e))))
            /\ sinceWheel' = 0
            /\ IF animationFrameId = NULL
               THEN /\ frames' = frames \cup {[id |-> FreshFrameId, left |-> FrameInterval]}
                    /\ animationFrameId' = [id |-> FreshFrameId]
               ELSE UNCHANGED <<frames, animationFrameId>>
            /\ timers' = RefreshRearmed(timers)
            /\ wheelTimeoutId' = [id |-> FreshTimerId]
            /\ WheelHandled(e, el)
            /\ UNCHANGED <<orbitVars, orbitPoint, pending, fixedVars, camera, _dir,
                           throttledVars, sinceStarted>>

\* `const currentStep = targetStep * cfg.smoothing; targetStep -= currentStep`
RemainingStepNoDecay(ts) == ts

RemainingStep(ts) == ts - Mul(ts, cfg.smoothing)

\* animate, had it left animationFrameId set when the cycle stops
AnimateKeepingHandle(f, cc, el) ==
    /\ variant = "momentum"
    /\ f \in DueFrames
    /\ IF ~cc \/ ~el \/ Abs(targetStep) < AnimateEpsilon
       THEN /\ targetStep' = 0
            /\ frames' = frames \ {f}
            /\ UNCHANGED <<camera, animationFrameId>>
       ELSE /\ targetStep' = RemainingStep(targetStep)
            /\ camera' = MoveAlong(camera, lastMouse, Mul(targetStep, cfg.smoothing))
            /\ frames' = (frames \ {f}) \cup {[id |-> FreshFrameId, left |-> FrameInterval]}
            /\ animationFrameId' = [id |-> FreshFrameId]
    /\ lastStep' = [op |-> "animate", ready |-> (cc /\ el)]
    /\ UNCHANGED <<orbitVars, orbitPoint, pending, fixedVars, timers,
                   wheelTimeoutId, _dir, throttledVars, sinceWheel, wheelVelocity,
                   lastMouse, historyVars>>

\* animate, the animation-frame callback
Animate(f, cc, el) ==
    /\ variant = "momentum"
    /\ f \in DueFrames
    /\ IF ~cc \/ ~el \/ Abs(targetStep) < AnimateEpsilon
       THEN /\ targetStep' = 0
            /\ animationFrameId' = NULL
            /\ frames' = frames \ {f}
            /\ UNCHANGED camera
       ELSE /\ targetStep' = RemainingStep(targetStep)
            /\ camera' = MoveAlong(camera, lastMouse, Mul(targetStep, cfg.smoothing))
            /\ frames' = (frames \ {f}) \cup {[id |-> FreshFrameId, left |-> FrameInterval]}
            /\ animationFrameId' = [id |-> FreshFrameId]
    /\ lastStep' = [op |-> "animate", ready |-> (cc /\ el)]
    /\ UNCHANGED <<orbitVars, orbitPoint, pending, fixedVars, timers,
                   wheelTimeoutId, _dir, throttledVars, sinceWheel, wheelVelocity,
                   lastMouse, historyVars>>

\* cleanup
MomentumCleanup ==
    /\ variant = "momentum"
    /\ frames' = CancelFrame(frames, animationFrameId)
    /\ timers' = ClearTimeout(timers, wheelTimeoutId)
    /\ disposed' = TRUE
    /\ inputAfterCleanup' = FALSE
    /\ UNCHANGED sinceStarted
    /\ lastStep' = [op |-> "cleanup"]
    /\ UNCHANGED <<orbitVars, orbitPoint, pending, fixedVars, camera,
                   wheelTimeoutId, _dir, throttledVars, sinceWheel, wheelVelocity,
                   targetStep, animationFrameId, lastMouse, wheelCount,
                   sinceHandled, refreshSinceWheel>>

NextWheel ==
    \/ Tick
    \/ \E e \in WheelEvents, cc \in BOOLEAN, el \in BOOLEAN : ThrottledWheel(e, cc, el)
    \/ \E t \in timers : ThrottledRefresh(t)
    \/ \E t \in timers : ThrottledFinalRaycast(t)
    \/ \E i \in 1..MaxInFlight, o \in WheelOutcomes, cc \in BOOLEAN :
           PerformRaycastResume(i, o, cc)
    \/ ThrottledCleanup
    \/ \E e \in WheelEvents, cc \in BOOLEAN, el \in BOOLEAN : InstantWheel(e, cc, el)
    \/ \E i \in 1..MaxInFlight, o \in WheelOutcomes : InstantResume(i, o)
    \/ \E t \in timers : PlainRefresh(t)
    \/ InstantCleanup
    \/ \E e \in WheelEvents, cc \in BOOLEAN, el \in BOOLEAN : MomentumWheel(e, cc, el)
    \/ \E f \in frames, cc \in BOOLEAN, el \in BOOLEAN : Animate(f, cc, el)
    \/ MomentumCleanup

SpecWheel == InitWheel /\ [][NextWheel]_vars

\* one definition of createSmoothWheelControl at a time
InitThrottled == InitWheel /\ variant = "throttled"

NextThrottled ==
    \/ Tick
    \/ \E e \in WheelEvents, cc \in BOOLEAN, el \in BOOLEAN : ThrottledWheel(e, cc, el)
    \/ \E t \in timers : ThrottledRefresh(t)
    \/ \E t \in timers : ThrottledFinalRaycast(t)
    \/ \E i \in 1..MaxInFlight, o \in WheelOutcomes, cc \in BOOLEAN :
           PerformRaycastResume(i, o, cc)
    \/ ThrottledCleanup

SpecThrottled == InitThrottled /\ [][NextThrottled]_vars

\* the browser runs a timer callback that is due, time passes, and a
\* castRay() promise settles
FairThrottled ==
    /\ SpecThrottled
    /\ WF_vars(Tick)
    /\ WF_vars(\E t \in timers : ThrottledRefresh(t))
    /\ WF_vars(\E t \in timers : ThrottledFinalRaycast(t))
    /\ WF_vars(\E i \in 1..MaxInFlight, o \in WheelOutcomes, cc \in BOOLEAN :
                  PerformRaycastResume(i, o, cc))

InitInstant == InitWheel /\ variant = "instant"

NextInstant ==
    \/ Tick
    \/ \E e \in WheelEvents, cc \in BOOLEAN, el \in BOOLEAN : InstantWheel(e, cc, el)
    \/ \E i \in 1..MaxInFlight, o \in WheelOutcomes : InstantResume(i, o)
    \/ \E t \in timers : PlainRefresh(t)
    \/ InstantCleanup

SpecInstant == InitInstant /\ [][NextInstant]_vars

InitMomentum == InitWheel /\ variant = "momentum"

NextMomentum ==
    \/ Tick
    \/ \E e \in WheelEvents, cc \in BOOLEAN, el \in BOOLEAN : MomentumWheel(e, cc, el)
    \/ \E f \in frames, cc \in BOOLEAN, el \in BOOLEAN : Animate(f, cc, el)
    \/ \E t \in timers : PlainRefresh(t)
    \/ MomentumCleanup

SpecMomentum == InitMomentum /\ [][NextMomentum]_vars

\* the browser runs a requested animation frame and a timer that is due, and
\* time passes
FairMomentum ==
    /\ SpecMomentum
    /\ WF_vars(Tick)
    /\ WF_vars(\E f \in frames, cc \in BOOLEAN, el \in BOOLEAN : Animate(f, cc, el))
    /\ WF_vars(\E t \in timers : PlainRefresh(t))

(***************************************************************************)
(* calibrateDollyStepByScene: src/unnamed/part_003, lines 156-168          *)
(***************************************************************************)

\* what `bbox.getSize(...).length()` can be: a double that is NaN, an
\* infinity, or a number (in thousandths, multiples of 5.0, negative ones
\* included for the guard's sake)
Diagonals ==
    { [kind |-> "NaN"], [kind |-> "Infinity"], [kind |-> "-Infinity"] }
        \cup { [kind |-> "number", v |-> k * 5000] : k \in (-2)..MaxDiagonal }

\* the diagonals of the scenes loaded while a controller is in use: an empty
\* scene, a scene 50 across
SceneDiagonals ==
    { [kind |-> "number", v |-> 0], [kind |-> "number", v |-> 50000] }

\* isFinite(diag)
IsFinite(diag) == diag.kind = "number"

\* `>` of doubles: false when either side is NaN
GreaterThanZero(diag) ==
    CASE diag.kind = "NaN" -> FALSE
      [] diag.kind = "Infinity" -> TRUE
      [] diag.kind = "-Infinity" -> FALSE
      [] OTHER -> diag.v > 0

\* DOLLY_STEP_REF after calibrateDollyStepByScene found the diagonal diag
CalibratedResettingOnReject(prev, diag) ==
    IF IsFinite(diag) /\ GreaterThanZero(diag)
    THEN [value |-> IF Mul(diag.v, 20) > 500 THEN Mul(diag.v, 20) ELSE 500]
    ELSE [value |-> 500]

Calibrated(prev, diag) ==
    IF IsFinite(diag) /\ GreaterThanZero(diag)
    THEN [value |-> IF Mul(diag.v, 20) > 500 THEN Mul(diag.v, 20) ELSE 500]
    ELSE prev

\* calibrateDollyStepByScene(world), exported by the module of the momentum
\* definition
Calibrate(diag) ==
    /\ variant = "momentum"
    /\ DOLLY_STEP_REF' = Calibrated(DOLLY_STEP_REF, diag)
    /\ lastStep' = [op |-> "calibrate", diag |-> diag, before |-> DOLLY_STEP_REF.value]
    /\ UNCHANGED <<variant, cfg>>
    /\ UNCHANGED <<orbitVars, orbitPoint, pending, timers, camera, wheelTimeoutId,
                   _dir, throttledVars, momentumVars, historyVars>>

InitCalibration == InitWheel /\ variant = "momentum"

NextCalibration == \E diag \in Diagonals : Calibrate(diag)

SpecCalibration == InitCalibration /\ [][NextCalibration]_vars

\* the wheel controllers in a scene that is recalibrated while they are in use
NextWheelScene ==
    \/ NextWheel
    \/ \E diag \in SceneDiagonals : Calibrate(diag)

SpecWheelScene == InitWheel /\ [][NextWheelScene]_vars

(***************************************************************************)
(* The formulas of the wheel handlers, applied to inputs of a wider range  *)
(* than the wheel events above produce                                     *)
(***************************************************************************)

\* accumulated velocities, in thousandths: 0, 10, 20, ...
Velocities == {k * 10000 : k \in 0..MaxVelocity}

\* the velocityMultiplier that wheelHandler computes from wheelVelocity = v
EvalMultiplier(v) ==
    /\ variant = "momentum"
    /\ lastStep' = [op |-> "velocityMultiplier", v |-> v,
                     multiplier |-> VelocityMultiplier(v)]
    /\ UNCHANGED <<orbitVars, wheelVars, orbitPoint, pending>>

\* intersection distances, in thousandths: 0, 0.5, 1.0, ...
Distances == {k * 500 : k \in 0..MaxDistance}

\* cfg = { ...defaultConfig, ...config } with the proximity fields overridden
\* by the caller: zones of other widths, no slow-down and no speed-up
\* (minSpeed = maxSpeed = 1), a stop at distance 0 (minSpeed = 0)
FormulaConfigs(v) ==
    IF v = "momentum" THEN Configs(v)
    ELSE Configs(v) \cup
         { [c EXCEPT !.proximitySlowDistance = z[1], !.proximityNormalDistance = z[2],
                     !.proximityFastDistance = z[3], !.proximityMinSpeed = z[4],
                     !.proximityMaxSpeed = z[5]] :
             c \in {x \in Configs(v) : x.proximitySlowdown},
             z \in { <<3000, 5000, 9000, 1000, 1000>>,
                      <<500, 1000, 54500, 0, 2000>>,
                      <<1000, 1500, 2000, 999, 1001>> } }

\* the speed factors that the proximity branch computes for two hits, the
\* second one no nearer than the first; the branch reads cfg and the distance
\* only, so a behaviour makes one comparison
EvalProximity ==
    /\ variant \in {"instant", "throttled"}
    /\ lastStep.op = "init"
    /\ cfg.proximitySlowdown
    /\ \E d1 \in Distances, d2 \in Distances :
          /\ d1 <= d2
          /\ lastStep' = [op |-> "proximity", d1 |-> d1, f1 |-> ProximityFactor(d1),
                           d2 |-> d2, f2 |-> ProximityFactor(d2)]
    /\ UNCHANGED <<orbitVars, wheelVars, orbitPoint, pending>>

\* the fields of a WheelEvent that the step depends on
StepEvents ==
    [deltaY : {-100, -1, 0, 1, 100}, shiftKey : BOOLEAN, altKey : BOOLEAN,
     ctrlKey : BOOLEAN, metaKey : BOOLEAN]

\* `e.altKey || e.ctrlKey || e.metaKey`
FineHeld(x) == x.altKey \/ x.ctrlKey \/ x.metaKey

\* the factors a definition multiplies the step by: velocity multipliers
\* ("momentum"), proximity factors, 1.0 and proximityMaxSpeed (the others)
StepFactors ==
    IF variant = "momentum"
    THEN {VelocityMultiplier(v) : v \in Velocities}
    ELSE {ProximityFactor(d) : d \in Distances} \cup {1000, cfg.proximityMaxSpeed}

\* `const step = sign * base * boost * fine * factor` for an event x; the
\* formula reads the event, cfg and DOLLY_STEP_REF only, so a behaviour
\* evaluates it once
EvalStep ==
    /\ lastStep.op = "init"
    /\ \E factor \in StepFactors, x \in StepEvents :
          lastStep' = [op |-> "step", x |-> x, factor |-> factor,
                       step |-> Step([deltaY |-> x.deltaY, shiftKey |-> x.shiftKey,
                                      modKey |-> FineHeld(x), ray |-> 1], factor)]
    /\ UNCHANGED <<orbitVars, wheelVars, orbitPoint, pending>>

InitFormulas ==
    /\ variant \in {"momentum", "instant", "throttled"}
    /\ cfg \in FormulaConfigs(variant)
    /\ InitWheelState

NextFormulas ==
    \/ \E v \in Velocities : EvalMultiplier(v)
    \/ EvalProximity
    \/ EvalStep

SpecFormulas == InitFormulas /\ [][NextFormulas]_vars

(***************************************************************************)
(* Pivot selection: properties                                             *)
(***************************************************************************)

\* C1: between one primary-button press and the next, mouseMoveHandler calls
\* setOrbitPoint at most once, whatever the moves and whenever the ray cast
\* resolves; qualifying moves after a commit commit nothing.
C1_AtMostOneCommitPerGesture == moveCommits <= 1

\* C1 witness: a qualifying move (primary button, beyond the threshold, a
\* stored point that differs from the committed one) ran after the commit of
\* the same gesture and committed nothing.
C1_Witness ==
    /\ moveCommits = 1
    /\ state.hasSetOrbitPoint
    /\ lastStep.op = "move" /\ lastStep.buttons = 1 /\ lastStep.cc
    /\ ~WithinClick(lastStep.pos, state.mouseDownPos)
    /\ state.raycastResult # NULL
    /\ orbitPoint # state.raycastResult

\* C2: the point committed during a gesture is the point returned by the query
\* issued at that gesture's press, never one returned by an earlier press's
\* query.
C2_CommitFromOwnQuery == moveCommits > 0 => commitGen = gesture

\* C3: while every pointer-move of the gesture has stayed within 10 px of the
\* recorded press position, the mouse path has not changed the pivot and a
\* move does not change it, whatever the ray cast returned and whenever.
C3_ClickNeverMovesPivot ==
    /\ [](~farMove => moveCommits = 0)
    /\ [][(lastStep'.op = "move" /\ ~farMove') => orbitPoint' = orbitPoint]_vars

\* C3 witness: a move with the primary button held, at exactly 10 px from the
\* press, with a stored hit, in a gesture that has made no farther move.
C3_Witness ==
    /\ lastStep.op = "move" /\ lastStep.buttons = 1 /\ lastStep.cc
    /\ DistanceSquared(lastStep.pos, state.mouseDownPos)
           = DRAG_DISTANCE_THRESHOLD * DRAG_DISTANCE_THRESHOLD
    /\ state.raycastResult # NULL
    /\ ~farMove
    /\ moveCommits = 0

C5_RefreshDebounced ==
    /\ [](variant \in {"momentum", "throttled"} =>
            /\ Cardinality({t \in timers : t.kind = "refresh"}) <= 1
            /\ (~disposed /\ sinceHandled < cfg.fragmentUpdateDelay) =>
                  /\ refreshSinceWheel = 0
                  /\ \E t \in timers :
                        /\ t.kind = "refresh"
                        /\ t.left = cfg.fragmentUpdateDelay - sinceHandled
            /\ (/\ ~disposed
                /\ sinceHandled > cfg.fragmentUpdateDelay
                /\ sinceHandled < HandledAgeCap) =>
                  /\ refreshSinceWheel = 1
                  /\ {t \in timers : t.kind = "refresh"} = {})
    /\ [][(/\ variant \in {"momentum", "throttled"}
           /\ lastStep'.op = "wheel"
           /\ lastStep'.handled) =>
             /\ wheelTimeoutId' # NULL
             /\ {t \in timers' : t.kind = "refresh"}
                   = {[id |-> wheelTimeoutId'.id, kind |-> "refresh",
                       left |-> cfg.fragmentUpdateDelay]}
             /\ \A t \in timers : t.kind = "refresh" => t \notin timers']_vars
    /\ [][(variant \in {"momentum", "throttled"} /\ lastStep'.op = "refresh") =>
             /\ sinceHandled = cfg.fragmentUpdateDelay
             /\ refreshSinceWheel = 0]_vars

\* the second wheel event of a burst found the first event's refresh timer
\* pending, cancelled it and armed its own
C5_Witness ==
    /\ variant = "momentum"
    /\ ~disposed
    /\ lastStep.op = "wheel" /\ lastStep.handled
    /\ wheelCount = 2
    /\ wheelTimeoutId = [id |-> 2]
    /\ timers = {[id |-> 2, kind |-> "refresh", left |-> cfg.fragmentUpdateDelay]}

\* C6: in every wheel controller definition, a wheel event handled after
\* cleanup() schedules nothing: no timer, no animation frame, no raycast.
C6_WheelAfterCleanupSchedulesNothing ==
    [][(disposed /\ lastStep'.op = "wheel") =>
          /\ timers' = timers
          /\ frames' = frames
          /\ pending' = pending]_vars

\* C7: in every wheel controller definition cleanup() leaves no timer and no
\* animation frame armed, and from then on, as long as no wheel event
\* arrives, the camera is not moved and the refresh does not run.
C7_InertAfterCleanup ==
    /\ [](lastStep.op = "cleanup" => (timers = {} /\ frames = {}))
    /\ [][(disposed /\ ~inputAfterCleanup') =>
             /\ camera' = camera
             /\ lastStep'.op # "refresh"]_vars

\* C8: a castRay() that was in flight when cleanup() was called and settles
\* afterwards changes neither the pivot, nor the camera, nor the cached speed
\* factor, and arms no timer.
C8_LateResultsAreNoOps ==
    [][(/\ disposed
        /\ ~inputAfterCleanup
        /\ lastStep'.op \in {"raycastResume", "wheelResume"}) =>
          /\ orbitPoint' = orbitPoint
          /\ camera' = camera
          /\ cachedSpeedFactor' = cachedSpeedFactor
          /\ timers' = timers]_vars

\* C9: in the throttled definition the pivot changes only in the continuation
\* of a raycast and only while isMoving is false; a raycast that settles
\* while isMoving is true leaves the pivot as it was.
C9_PivotOnlyWhenNotMoving ==
    /\ [][orbitPoint' # orbitPoint =>
             (~isMoving /\ lastStep'.op = "raycastResume")]_vars
    /\ [][(lastStep'.op = "raycastResume" /\ isMoving) =>
             orbitPoint' = orbitPoint]_vars

\* a hit settled during a burst, with the camera controls present, and the
\* pivot is still unset
C9_Witness ==
    /\ variant = "throttled"
    /\ lastStep.op = "raycastResume"
    /\ lastStep.outcome = "hit"
    /\ lastStep.cc
    /\ isMoving
    /\ orbitPoint = NULL

\* C10: in the throttled definition every raycast starts while isMoving is
\* false, and after a handled wheel event no final-raycast timer is armed.
C10_NoRaycastDuringBurst ==
    /\ [][Len(pending') > Len(pending) => ~isMoving]_vars
    /\ [][(lastStep'.op = "wheel" /\ lastStep'.handled) =>
             \A t \in timers' : t.kind # "finalRaycast"]_vars

\* C11: in the throttled definition any two calls of performRaycast (from a
\* wheel event or from the final-raycast timer) are at least RAYCAST_THROTTLE
\* ms apart.
C11_RaycastsThrottled ==
    [][(variant = "throttled" /\ Len(pending') > Len(pending)) =>
          sinceStarted >= RAYCAST_THROTTLE]_vars

\* C12: in the throttled definition the refresh callback arms exactly one
\* final-raycast timer, due FinalRaycastDelay later, and nothing else arms
\* one; when it fires performRaycast() is called once and no final-raycast
\* timer is left; unless a wheel event or cleanup() comes first it does fire;
\* and with proximitySlowdown enabled the result of that raycast becomes
\* cachedSpeedFactor.
C12_FinalRaycastOnceSettled ==
    /\ [](variant = "throttled" =>
            Cardinality({t \in timers : t.kind = "finalRaycast"}) <= 1)
    /\ [][lastStep'.op = "refresh" =>
             {t \in timers' : t.kind = "finalRaycast"}
                = {[id |-> raycastTimeoutId'.id, kind |-> "finalRaycast",
                    left |-> FinalRaycastDelay]}]_vars
    /\ [][{t.id : t \in {u \in timers' : u.kind = "finalRaycast"}}
             \ {t.id : t \in timers} # {} => lastStep'.op = "refresh"]_vars
    /\ [][lastStep'.op = "finalRaycast" =>
             /\ Len(pending') = Len(pending) + 1
             /\ pending'[Len(pending')].by = "timer"
             /\ {t \in timers' : t.kind = "finalRaycast"} = {}]_vars
    /\ [][(/\ lastStep'.op = "raycastResume"
           /\ lastStep'.by = "timer"
           /\ cfg.proximitySlowdown) =>
             cachedSpeedFactor' =
                IF lastStep'.outcome = "hit"
                THEN Lerp(cfg.proximityMinSpeed, 1000, 1000, cfg.proximitySlowDistance)
                ELSE cfg.proximityMaxSpeed]_vars
    /\ (variant = "throttled" /\ lastStep.op = "refresh")
          ~> (lastStep.op \in {"finalRaycast", "wheel", "cleanup"})

\* the final raycast of an idle period found a hit and its factor is cached
C12_Witness ==
    /\ variant = "throttled"
    /\ cfg.proximitySlowdown
    /\ ~disposed
    /\ lastStep.op = "raycastResume"
    /\ lastStep.by = "timer"
    /\ lastStep.outcome = "hit"
    /\ ~isMoving
    /\ cachedSpeedFactor = 600
    /\ wheelCount = 1

(***************************************************************************)
(* Pivot selection: further properties                                     *)
(***************************************************************************)

\* C13: a primary-button press, from any state, records the press position,
\* clears hasSetOrbitPoint and discards raycastResult in the same step,
\* before its raycast settles, and leaves the pivot alone; in a gesture after
\* the first an armed move beyond the threshold with a stored point commits
\* that point.
C13_PressStartsNewGesture ==
    /\ [][(lastStep'.op = "down" /\ lastStep'.button = 0) =>
             /\ state' = [mouseDownPos |-> lastStep'.pos,
                          hasSetOrbitPoint |-> FALSE,
                          raycastResult |-> NULL]
             /\ Len(pending') = Len(pending) + 1
             /\ moveCommits' = 0
             /\ orbitPoint' = orbitPoint]_vars
    /\ [][(/\ gesture > 1
           /\ lastStep'.op = "move" /\ lastStep'.buttons = 1 /\ lastStep'.cc
           /\ ~state.hasSetOrbitPoint
           /\ DistanceSquared(lastStep'.pos, state.mouseDownPos)
                 > DRAG_DISTANCE_THRESHOLD * DRAG_DISTANCE_THRESHOLD
           /\ state.raycastResult # NULL) =>
             /\ orbitPoint' = state.raycastResult
             /\ state'.hasSetOrbitPoint
             /\ moveCommits' = 1]_vars

\* the first gesture committed the point of its own query, and so did the
\* second after a new press
C13_Witness ==
    /\ gesture = 2
    /\ lastStep.op = "move"
    /\ lastStep.prev = 1
    /\ commitGen = 2
    /\ moveCommits = 1
    /\ state.hasSetOrbitPoint
    /\ orbitPoint = state.raycastResult

\* C14: once the query of a press has settled without a point (no hit, or an
\* error), no pointer move of that gesture changes the pivot; a touch or a
\* setOrbitPoint() whose ray cast finds nothing or throws changes nothing.
C14_FailedQueryNoPivotChange ==
    /\ [][(ownFailed /\ lastStep'.op = "move") =>
             (orbitPoint' = orbitPoint /\ moveCommits' = moveCommits)]_vars
    /\ [][(lastStep'.op \in {"touch", "setOrbitPoint"} /\ ~lastStep'.hit) =>
             (orbitPoint' = orbitPoint /\ state' = state)]_vars

(***************************************************************************)
(* Momentum definition: properties                                         *)
(***************************************************************************)

\* C15: in the momentum definition the velocity after a handled wheel event
\* is the velocity before it times velocityDecay plus |deltaY| when the gap
\* since the previous event does not exceed velocityTimeout, and |deltaY|
\* alone when it does (velocities in thousandths).
C15_MomentumDecay ==
    [][(variant = "momentum" /\ lastStep'.op = "wheel" /\ lastStep'.handled) =>
          wheelVelocity' =
             (IF sinceWheel <= cfg.velocityTimeout
              THEN (wheelVelocity * cfg.velocityDecay) \div 1000
              ELSE 0)
             + (IF lastStep'.e.deltaY < 0 THEN -lastStep'.e.deltaY
                ELSE lastStep'.e.deltaY) * 1000]_vars

\* two events no more than velocityTimeout apart: 100 * 0.9 + 100
C15_Witness ==
    /\ variant = "momentum"
    /\ lastStep.op = "wheel" /\ lastStep.handled
    /\ wheelCount = 2
    /\ sinceWheel = 0
    /\ wheelVelocity = 190000
    /\ sinceHandled = 0
    /\ \E t \in timers : t.kind = "refresh" /\ t.left = cfg.fragmentUpdateDelay

\* C16: for every accumulated velocity the velocity multiplier lies between 1
\* and maxVelocityMultiplier: it is 1 + velocity / velocityDivisor while that
\* is below the maximum and the maximum from there on.
C16_MultiplierClamped ==
    lastStep.op = "velocityMultiplier" =>
       /\ lastStep.multiplier >= 1000
       /\ lastStep.multiplier <= cfg.maxVelocityMultiplier
       /\ (lastStep.v >= (cfg.maxVelocityMultiplier - 1000) * cfg.velocityDivisor) =>
              lastStep.multiplier = cfg.maxVelocityMultiplier

\* a velocity of 1000, where 1 + 1000 / 200 = 6 is clamped to 5
C16_Witness ==
    /\ lastStep.op = "velocityMultiplier"
    /\ lastStep.v = 1000000
    /\ lastStep.multiplier = 5000

\* C17: in the momentum definition, with camera controls and container
\* present, a frame that finds |targetStep| at or above 0.001 leaves a
\* strictly smaller remainder, targetStep * (1 - smoothing) to the last digit
\* of the fixed-point representation, and requests the
\* next frame; a frame that finds it below 0.001 sets targetStep to exactly 0,
\* clears animationFrameId and requests nothing; and once the wheel events
\* have ended no animation frame stays requested: the cycle stops, with
\* targetStep = 0 and animationFrameId = null unless cleanup() cut it short.
C17_AnimationTerminates ==
    /\ [][(lastStep'.op = "animate" /\ lastStep'.ready /\ Abs(targetStep) >= AnimateEpsilon) =>
             /\ Abs(targetStep') < Abs(targetStep)
             /\ Abs(targetStep' - targetStep + (targetStep * cfg.smoothing) \div 1000) <= 1
             /\ Cardinality(frames') = 1
             /\ animationFrameId' # NULL]_vars
    /\ [][(lastStep'.op = "animate" /\ Abs(targetStep) < AnimateEpsilon) =>
             /\ targetStep' = 0
             /\ animationFrameId' = NULL
             /\ frames' = {}]_vars
    /\ <>[](/\ frames = {}
            /\ ~disposed => (targetStep = 0 /\ animationFrameId = NULL))

\* the cycle of one wheel event has run out: the camera has moved, the last
\* frame found the remainder below 0.001 and reset it
C17_Witness ==
    /\ variant = "momentum"
    /\ ~disposed
    /\ wheelCount = 1
    /\ lastStep.op = "animate" /\ lastStep.ready
    /\ targetStep = 0
    /\ animationFrameId = NULL
    /\ frames = {}
    /\ camera.pos[1] > 299000

\* C18: in the momentum definition the camera moves only in a step of the
\* animation callback; a wheel event changes neither the camera nor the
\* pivot and starts no ray cast: it updates the mouse position, wheelVelocity
\* and targetStep, requests at most one animation frame (none when one is
\* already requested) and re-arms the refresh timer.
C18_WheelNeverMovesCamera ==
    [][variant = "momentum" =>
         /\ (camera' # camera => lastStep'.op = "animate")
         /\ (lastStep'.op = "wheel" =>
               /\ UNCHANGED <<camera, orbitPoint, pending>>
               /\ frames \subseteq frames'
               /\ Cardinality(frames') <= Cardinality(frames) + 1
               /\ (animationFrameId # NULL => frames' = frames)
               /\ (lastStep'.handled => Cardinality(timers') = 1))]_vars

\* a wheel event handled while an earlier event's animation is under way: the
\* camera has been moved by frames, the event adds to targetStep
C18_Witness ==
    /\ variant = "momentum"
    /\ lastStep.op = "wheel" /\ lastStep.handled
    /\ wheelCount = 2
    /\ targetStep # 0
    /\ frames # {}
    /\ (camera.pos[1] # 0 \/ camera.pos[2] # 0)

\* C19: in the momentum definition a handled wheel event leaves
\* targetStep = (targetStep just before the event) * stepAccumulation + step,
\* to the last digit of the fixed-point representation, where step is
\* sign * base * boost * fine * velocityMultiplier of that event and the
\* value before the event is whatever earlier events and frames left.
C19_StepAccumulated ==
    [][(variant = "momentum" /\ lastStep'.op = "wheel" /\ lastStep'.handled) =>
          LET e == lastStep'.e
              sign == IF e.deltaY < 0 THEN 1 ELSE -1
              boost == IF e.shiftKey THEN cfg.shiftBoost ELSE 1000
              fine == IF e.modKey THEN cfg.fineModifier ELSE 1000
              multiplier == MinOf({1000 + wheelVelocity' \div cfg.velocityDivisor,
                                   cfg.maxVelocityMultiplier})
              modified == (((DOLLY_STEP_REF.value * boost) \div 1000) * fine) \div 1000
              step == sign * modified * multiplier
          IN  Abs(targetStep' - step - (targetStep * cfg.stepAccumulation) \div 1000) <= 1]_vars

\* the second event arrived while part of the first event's step was still
\* pending, after at least one frame had consumed some of it
C19_Witness ==
    /\ variant = "momentum"
    /\ lastStep.op = "wheel" /\ lastStep.handled
    /\ wheelCount = 2
    /\ (camera.pos[1] # 0 \/ camera.pos[2] # 0)
    /\ targetStep # Step(lastStep.e, VelocityMultiplier(wheelVelocity))
    /\ animationFrameId # NULL

\* C20: for a configuration with 0 < slowDistance < normalDistance <
\* fastDistance and minSpeed <= 1 <= maxSpeed, the proximity speed factor of
\* a hit at distance d >= 0 is non-decreasing in d, is minSpeed at d = 0, lies
\* between minSpeed and 1.0 below slowDistance, is exactly 1.0 for
\* slowDistance <= d < normalDistance, is 1.0 + (maxSpeed - 1.0) *
\* (d - normalDistance) / (fastDistance - normalDistance) on
\* [normalDistance, fastDistance) and is maxSpeed for d >= fastDistance.
C20_ProximityMonotone ==
    (/\ lastStep.op = "proximity"
     /\ 0 < cfg.proximitySlowDistance
     /\ cfg.proximitySlowDistance < cfg.proximityNormalDistance
     /\ cfg.proximityNormalDistance < cfg.proximityFastDistance
     /\ cfg.proximityMinSpeed <= 1000
     /\ 1000 <= cfg.proximityMaxSpeed) =>
        LET d == lastStep.d1
            f == lastStep.f1
            slow == cfg.proximitySlowDistance
            normal == cfg.proximityNormalDistance
            fast == cfg.proximityFastDistance
        IN  /\ lastStep.f1 <= lastStep.f2
            /\ (d = 0 => f = cfg.proximityMinSpeed)
            /\ (d < slow => f >= cfg.proximityMinSpeed /\ f <= 1000)
            /\ ((slow <= d /\ d < normal) => f = 1000)
            /\ ((normal <= d /\ d < fast) =>
                   Abs(f * (fast - normal)
                         - (1000 * (fast - normal) + (cfg.proximityMaxSpeed - 1000) * (d - normal)))
                      < fast - normal)
            /\ (d >= fast => f = cfg.proximityMaxSpeed)

\* a hit inside the speed-up zone compared with one beyond fastDistance, in a
\* configuration other than the defaults
C20_Witness ==
    /\ lastStep.op = "proximity"
    /\ cfg.proximityNormalDistance = 1000
    /\ lastStep.d1 > cfg.proximityNormalDistance
    /\ lastStep.d1 < cfg.proximityFastDistance
    /\ lastStep.f1 > 1000
    /\ lastStep.f1 < cfg.proximityMaxSpeed
    /\ lastStep.d2 >= cfg.proximityFastDistance
    /\ lastStep.f2 = cfg.proximityMaxSpeed

\* C21: with proximitySlowdown enabled, a ray cast that finds no intersection
\* makes the speed factor of the step proximityMaxSpeed: in the awaiting
\* definition the step of the event whose query found nothing is taken with
\* proximityMaxSpeed, in the throttled definition cachedSpeedFactor, which
\* the following steps are taken with, becomes proximityMaxSpeed.
C21_NoHitMeansMaxSpeed ==
    [][/\ (/\ variant = "throttled"
           /\ cfg.proximitySlowdown
           /\ lastStep'.op = "raycastResume"
           /\ lastStep'.outcome = "miss") =>
              cachedSpeedFactor' = cfg.proximityMaxSpeed
       /\ (/\ variant = "instant"
           /\ cfg.proximitySlowdown
           /\ lastStep'.op = "wheelResume"
           /\ lastStep'.outcome = "miss") =>
              /\ lastStep'.factor = cfg.proximityMaxSpeed
              /\ camera' = MoveAlong(camera, _dir,
                                     Step(lastStep'.e, cfg.proximityMaxSpeed))]_vars

\* C22: with proximitySlowdown false, in the awaiting and in the throttled
\* definition the speed factor stays 1.0 whatever the wheel events and the
\* outcomes of the ray casts (hit, no hit, error): cachedSpeedFactor remains
\* 1.0 and every handled wheel event moves the camera by
\* sign * base * boost * fine * 1.0.
C22_FactorOneWhenDisabled ==
    [][(variant \in {"instant", "throttled"} /\ ~cfg.proximitySlowdown) =>
          /\ cachedSpeedFactor' = 1000
          /\ (lastStep'.op = "wheel" /\ lastStep'.handled) =>
                camera' = MoveAlong(camera, lastStep'.e.ray, Step(lastStep'.e, 1000))]_vars

\* C23: in every definition the signed step of a wheel event is
\* sign * base * boost * fine * factor: boost is shiftBoost with shiftKey held
\* and 1 otherwise, fine is fineModifier with any of alt, ctrl, meta held and 1
\* otherwise, the two multiply when held together, and the step is positive for
\* a negative deltaY and negative for a positive deltaY.
C23_StepFormula ==
    lastStep.op = "step" =>
        LET x == lastStep.x
            boost == IF x.shiftKey THEN cfg.shiftBoost ELSE 1000
            fine == IF x.altKey \/ x.ctrlKey \/ x.metaKey THEN cfg.fineModifier ELSE 1000
            boosted == (DOLLY_STEP_REF.value * boost) \div 1000
            modified == (boosted * fine) \div 1000
        IN  /\ (DOLLY_STEP_REF.value * boost) % 1000 = 0
            /\ (boosted * fine) % 1000 = 0
            /\ Abs(lastStep.step) = modified * lastStep.factor
            /\ (x.deltaY < 0 /\ lastStep.factor > 0) => lastStep.step > 0
            /\ (x.deltaY > 0 /\ lastStep.factor > 0) => lastStep.step < 0

\* shift and a fine key held together on a forward scroll with a factor other
\* than 1.0
C23_Witness ==
    /\ lastStep.op = "step"
    /\ lastStep.x.deltaY = -100
    /\ lastStep.x.shiftKey /\ lastStep.x.ctrlKey /\ ~lastStep.x.altKey
    /\ lastStep.factor > 1000
    /\ lastStep.step = 3 * (DOLLY_STEP_REF.value \div 10) * lastStep.factor

\* C24: in the awaiting and in the throttled definition the camera step of a
\* wheel event is applied inside the wheelHandler call that received the
\* event, not after an intersection query has resolved: a handled wheel event
\* moves the camera in the same step, nothing but a wheel event moves it, and
\* no animation frame is ever requested.
C24_StepAppliedImmediately ==
    [][(variant \in {"instant", "throttled"}) =>
          /\ ((lastStep'.op = "wheel" /\ lastStep'.handled) => (camera' # camera))
          /\ ((camera' # camera) => (lastStep'.op = "wheel"))
          /\ (frames' = {})
          /\ (animationFrameId' = NULL)]_vars

\* C25: a wheel event that finds the camera controls undefined or the
\* container element missing is a no-op in every definition: it moves
\* nothing, changes no variable of the controller (velocity, pending step,
\* cached factor, isMoving, mouse position, ray, timer and frame handles) and
\* schedules no timer, ray cast or animation frame.
C25_WheelWithoutRigIsNoOp ==
    [][(lastStep'.op = "wheel" /\ (~lastStep'.handled \/ ~lastStep'.el)) =>
          UNCHANGED <<camera, orbitPoint, pending, timers, frames, wheelTimeoutId,
                      raycastTimeoutId, animationFrameId, _dir, lastMouse,
                      sinceRaycast, sinceWheel, cachedSpeedFactor, isMoving,
                      wheelVelocity, targetStep>>]_vars

\* C26: every wheelHandler call of every definition has called
\* preventDefault (and stopPropagation) on its event, whether or not it
\* returned early for want of camera controls or container.
C26_DefaultAlwaysPrevented ==
    lastStep.op = "wheel" =>
        lastStep.event.defaultPrevented /\ lastStep.event.propagationStopped

\* a wheel event that returned early, after an event that was handled
C26_Witness ==
    /\ lastStep.op = "wheel"
    /\ ~lastStep.handled
    /\ wheelCount = 2
    /\ sinceHandled < HandledAgeCap
    /\ lastStep.event.defaultPrevented

\* C27: calibrateDollyStepByScene sets DOLLY_STEP_REF.value to
\* max(diagonal * 0.02, 0.5) when the diagonal is finite and positive and
\* leaves it as it was when the diagonal is NaN, infinite, zero or negative;
\* the value, positive at the start, is positive after every calibration.
C27_CalibrationRejectsBadDiagonal ==
    /\ DOLLY_STEP_REF.value > 0
    /\ lastStep.op = "calibrate" =>
          LET d == lastStep.diag
          IN  IF d.kind = "number" /\ d.v > 0
              THEN /\ (d.v * 20) % 1000 = 0
                   /\ DOLLY_STEP_REF.value >= 500
                   /\ DOLLY_STEP_REF.value >= (d.v * 20) \div 1000
                   /\ DOLLY_STEP_REF.value \in {500, (d.v * 20) \div 1000}
              ELSE DOLLY_STEP_REF.value = lastStep.before

\* a NaN diagonal after a calibration that had raised the base step to 2.0
C27_Witness ==
    /\ lastStep.op = "calibrate"
    /\ lastStep.diag.kind = "NaN"
    /\ lastStep.before = 2000
    /\ DOLLY_STEP_REF.value = 2000

\* C28: no operation of a wheel controller (wheel handler, animation
\* callback, refresh timer, final-raycast timer, ray cast resolution,
\* cleanup) writes DOLLY_STEP_REF.value: the only steps that change it are
\* calls of calibrateDollyStepByScene, which the application makes.
C28_ControllerNeverCalibrates ==
    [][(DOLLY_STEP_REF' # DOLLY_STEP_REF) => (lastStep'.op = "calibrate")]_vars

\* the base step has been recalibrated between two wheel events of a
\* controller, which took the second step with the new value
C28_Witness ==
    /\ variant = "momentum"
    /\ DOLLY_STEP_REF.value = 1000
    /\ lastStep.op = "wheel" /\ lastStep.handled
    /\ wheelCount = 2
    /\ animationFrameId # NULL

(***************************************************************************)
(* Touch and the standalone setOrbitPoint: properties                      *)
(***************************************************************************)

\* C29: touchStartHandler with exactly one touch point, the container present
\* and a ray that hits scene geometry sets the pivot to the nearest
\* intersection inside the handler call, whatever the state of the mouse
\* gesture, which it leaves alone, and defers nothing; with zero or several
\* touch points, no intersection, an error or a missing container it sets no
\* pivot.
C29_TouchCommitsAtOnce ==
    [][(lastStep'.op = "touch") =>
          /\ UNCHANGED <<state, pending, gesture, moveCommits>>
          /\ IF lastStep'.ready /\ Len(lastStep'.intersections) > 0
             THEN orbitPoint' = [x |-> lastStep'.intersections[1].x,
                                 y |-> lastStep'.intersections[1].y,
                                 z |-> lastStep'.intersections[1].z]
             ELSE orbitPoint' = orbitPoint]_vars

\* a touch whose ray met two surfaces, while the query of a mouse press is
\* still in flight and no pointer move has committed anything
C29_Witness ==
    /\ lastStep.op = "touch"
    /\ lastStep.ready
    /\ Len(lastStep.intersections) = 2
    /\ orbitPoint = lastStep.intersections[1]
    /\ Len(pending) > 0
    /\ state # NULL
    /\ ~state.hasSetOrbitPoint
    /\ moveCommits = 0

\* C30: the exported setOrbitPoint neither reads nor writes the drag state of
\* a pivot controller: a call leaves the press position, the pivot-set flag,
\* the stored point and the queries in flight as they were, the pivot it
\* sets is the nearest intersection of its own ray whatever that state is,
\* and a second call with the same coordinates on the same scene sets the
\* same pivot again.
C30_SetOrbitPointStateless ==
    [][(lastStep'.op = "setOrbitPoint") =>
          /\ UNCHANGED <<state, pending, gesture, resultGen, commitGen, moveCommits>>
          /\ IF lastStep'.ready /\ Len(lastStep'.intersections) > 0
             THEN orbitPoint' = [x |-> lastStep'.intersections[1].x,
                                 y |-> lastStep'.intersections[1].y,
                                 z |-> lastStep'.intersections[1].z]
             ELSE orbitPoint' = orbitPoint
          /\ (lastStep = lastStep') => (orbitPoint' = orbitPoint)]_vars

\* a call that set the pivot while a mouse gesture was armed with another
\* stored point, which stays armed
C30_Witness ==
    /\ lastStep.op = "setOrbitPoint"
    /\ lastStep.ready
    /\ Len(lastStep.intersections) > 0
    /\ orbitPoint = lastStep.intersections[1]
    /\ state.raycastResult # NULL
    /\ state.raycastResult # orbitPoint
    /\ ~state.hasSetOrbitPoint
    /\ moveCommits = 0

\* C31: in the awaiting definition the step of every wheel event is applied
\* along the ray through that event's own cursor position, also when other
\* wheelHandler calls ran while it was suspended on its ray cast: the
\* continuation of an event moves position and target along the event's ray
\* by the event's step.
C31_StepAlongOwnRay ==
    [][(variant = "instant" /\ lastStep'.op = "wheelResume") =>
          camera' = MoveAlong(camera, lastStep'.e.ray,
                              Step(lastStep'.e, lastStep'.factor))]_vars

\* C32: in the awaiting definition the deferred refresh is debounced per
\* burst, whatever the latency of the ray casts and the order in which the
\* suspended handlers resume: at most one refresh timer is pending at any
\* time, never more than one refresh runs after the last handled wheel
\* event, and once every handler has resumed and no timer is left exactly
\* one refresh has run after that event.
C32_AwaitingRefreshDebounced ==
    (variant = "instant" /\ ~disposed) =>
        /\ Cardinality({t \in timers : t.kind = "refresh"}) <= 1
        /\ refreshSinceWheel <= 1
        /\ (sinceHandled < HandledAgeCap /\ pending = <<>> /\ timers = {}) =>
              refreshSinceWheel = 1

\* C33: a pointer-move commits the pivot whenever the primary button is
\* among the buttons held (bit 1 of MouseEvent.buttons, whatever other
\* buttons are held with it), no pivot has been set yet, the distance from
\* the press position exceeds 10 px and a stored point exists (camera rig
\* present); a move with the primary button not held never commits.
C33_PrimaryHeldCommits ==
    [][(lastStep'.op = "move") =>
          IF lastStep'.buttons % 2 = 1
          THEN (/\ lastStep'.cc
                /\ ~state.hasSetOrbitPoint
                /\ BeyondThreshold(lastStep'.pos, state.mouseDownPos)
                /\ state.raycastResult # NULL)
               => /\ orbitPoint' = OrbitArgs(state.raycastResult)
                  /\ moveCommits' = moveCommits + 1
                  /\ state'.hasSetOrbitPoint
          ELSE UNCHANGED <<orbitPoint, moveCommits, state>>]_vars

\* C34: the press handler does not wait for its ray cast and a late result
\* still serves the same gesture.  A press returns with its query in
\* flight; a pointer-move that arrives while the query of the last press is
\* still in flight commits nothing and leaves the pivot-set flag clear; and
\* once that query has resolved with a hit, the first qualifying move
\* (primary button alone, beyond the threshold, camera rig present, no pivot
\* set yet) commits the point of that query.
C34_LateResultStillUsable ==
    [][/\ (lastStep'.op = "down" /\ lastStep'.button = 0) =>
             \E i \in 1..Len(pending') : pending'[i].gen = gesture'
       /\ (/\ lastStep'.op = "move"
           /\ \E i \in 1..Len(pending) : pending[i].gen = gesture) =>
             /\ orbitPoint' = orbitPoint
             /\ moveCommits' = moveCommits
             /\ ~state'.hasSetOrbitPoint
       /\ (/\ lastStep'.op = "move"
           /\ lastStep'.buttons = 1
           /\ lastStep'.cc
           /\ BeyondThreshold(lastStep'.pos, state.mouseDownPos)
           /\ ~state.hasSetOrbitPoint
           /\ gesture > 0
           /\ ~ownFailed
           /\ \A i \in 1..Len(pending) : pending[i].gen # gesture) =>
             /\ state'.hasSetOrbitPoint
             /\ moveCommits' = moveCommits + 1
             /\ commitGen' = gesture
             /\ orbitPoint' = OrbitArgs(state.raycastResult)]_vars

\* C35: every step of every wheel controller definition shifts the camera
\* position and the camera target by the same vector, so target minus
\* position never changes; and an animation cycle of the momentum
\* definition that moves the camera moves both along the ray of the last
\* cursor position by targetStep * smoothing (to the unit of the fixed-point
\* representation) and subtracts exactly that displacement from targetStep:
\* displacement + targetStep after = targetStep before.
C35_DollyKeepsOffset ==
    [][/\ \A r \in Rays :
             camera'.tgt[r] - camera'.pos[r] = camera.tgt[r] - camera.pos[r]
       /\ (/\ lastStep'.op = "animate"
           /\ lastStep'.ready
           /\ Abs(targetStep) >= AnimateEpsilon) =>
             LET displacement == camera'.pos[lastMouse] - camera.pos[lastMouse]
             IN  /\ camera'.tgt[lastMouse] - camera.tgt[lastMouse] = displacement
                 /\ \A r \in Rays \ {lastMouse} : camera'.pos[r] = camera.pos[r]
                 /\ displacement + targetStep' = targetStep
                 /\ displacement # 0
                 /\ (displacement > 0) = (targetStep > 0)
                 /\ Abs(displacement * 1000 - targetStep * cfg.smoothing) < 1000]_vars

\* two animation cycles have moved the camera along ray 1 by part of the
\* pending step; the target is still 1.0 ahead of the position
C35_Witness ==
    /\ variant = "momentum"
    /\ lastStep.op = "animate" /\ lastStep.ready
    /\ targetStep # 0
    /\ camera.pos[1] > 0
    /\ camera.pos[1] + targetStep > 0
    /\ camera.tgt[1] = camera.pos[1] + 1000000
    /\ camera.pos[2] = 0

\* C36: in the momentum definition, until cleanup() is called, at most one
\* animation-frame callback is outstanding, animationFrameId is set exactly
\* when one is, and a non-zero targetStep implies that one is outstanding.
\* A handled wheel event that finds a cycle active requests no frame, and
\* one that finds no cycle active requests exactly one.
C36_OneAnimationCycle ==
    /\ []((variant = "momentum" /\ ~disposed) =>
            /\ Cardinality(frames) <= 1
            /\ (animationFrameId # NULL) = (frames # {})
            /\ (animationFrameId # NULL) => (frames = {[id |-> animationFrameId.id,
                                                         left |-> f.left] : f \in frames})
            /\ (targetStep # 0) => (frames # {}))
    /\ [][(/\ variant = "momentum"
           /\ ~disposed
           /\ lastStep'.op = "wheel"
           /\ lastStep'.handled) =>
             IF frames # {}
             THEN frames' = frames
             ELSE /\ Cardinality(frames') = 1
                  /\ animationFrameId' # NULL]_vars

\* a wheel event after the animation cycle of an earlier event had stopped:
\* it started a new cycle
C36_Witness ==
    /\ variant = "momentum"
    /\ ~disposed
    /\ lastStep.op = "wheel" /\ lastStep.handled
    /\ wheelCount = 2
    /\ camera.pos[1] # 0
    /\ sinceWheel = 0
    /\ targetStep = Step(lastStep.e, VelocityMultiplier(wheelVelocity))
    /\ Cardinality(frames) = 1
    /\ \A f \in frames : f.left = FrameInterval

\* C37: in the throttled definition, in every state between handler and
\* timer callbacks, isMoving is true exactly when a refresh timer is pending,
\* which is exactly when wheelTimeoutId is not null; every handled wheel
\* event raises the flag and only the refresh timer's callback lowers it.
C37_MovingIffRefreshPending ==
    /\ [](variant = "throttled" =>
            /\ isMoving = (wheelTimeoutId # NULL)
            /\ isMoving = (\E t \in timers : t.kind = "refresh")
            /\ \A t \in timers : t.kind = "refresh" => t.id = wheelTimeoutId.id)
    /\ [][(variant = "throttled" /\ lastStep'.op = "wheel" /\ lastStep'.handled)
             => isMoving']_vars
    /\ [][(variant = "throttled" /\ isMoving /\ ~isMoving')
             => lastStep'.op = "refresh"]_vars

\* C38: in every definition the sign of the step is +1 only for deltaY < 0
\* and -1 for every deltaY >= 0, so a wheel event with deltaY = 0 is a
\* retreat: its step is minus base * boost * fine * factor, the step of an
\* event with a positive deltaY and the same modifiers, and it is not zero
\* unless the factor is.
C38_ZeroDeltaRetreats ==
    lastStep.op = "step" =>
        LET x == lastStep.x
            boost == IF x.shiftKey THEN cfg.shiftBoost ELSE 1000
            fine == IF FineHeld(x) THEN cfg.fineModifier ELSE 1000
            boosted == (DOLLY_STEP_REF.value * boost) \div 1000
            magnitude == ((boosted * fine) \div 1000) * lastStep.factor
        IN  /\ lastStep.step = IF x.deltaY < 0 THEN magnitude ELSE -magnitude
            /\ (x.deltaY = 0 /\ lastStep.factor > 0) => lastStep.step < 0

\* a wheel event with deltaY = 0 and shift held: a backward step of
\* 3 * base * factor
C38_Witness ==
    /\ lastStep.op = "step"
    /\ lastStep.x.deltaY = 0
    /\ lastStep.x.shiftKey /\ ~FineHeld(lastStep.x)
    /\ lastStep.factor > 1000
    /\ lastStep.step = -3 * DOLLY_STEP_REF.value * lastStep.factor

====
